---------------------------- MODULE Spec2Model ----------------------------
(***************************************************************************)
(* A model of ncscli (src/ncscli/ncs.py): the retrying control-plane       *)
(* client queryNcsSc, launchNcscInstances, the wait-for-start poll loop    *)
(* and the reporting phase of doCmdLaunch, and instance termination        *)
(* (terminateNcscInstance, terminateInstances with its pool of two         *)
(* workers); and of the remote command dispatcher                          *)
(* (src/examples/blender/commandInstancesAsync.py): run_client, logResult  *)
(* and run_multiple_clients.                                               *)
(*                                                                         *)
(* The control plane is the environment: every answer it gives (status     *)
(* code, body, or a network-level failure of the request) is a             *)
(* nondeterministic choice from a small set.                               *)
(***************************************************************************)
EXTENDS Integers, Sequences, FiniteSets, TLC

(***************************************************************************)
(* Bounds of the model.                                                    *)
(***************************************************************************)
\* largest maxRetries given to queryNcsSc in QuerySpec
MaxRetries == 2
\* largest number of instance ids the launch returns (doCmdLaunch)
MaxIds == 3
\* largest number of instances the control plane creates or lists for one
\* launch (CmdSpec)
MaxLaunched == 2
\* largest number of instances given to run_multiple_clients (DispatchSpec)
MaxHosts == 2
\* number of lines a running command sends on stdout, and on stderr
MaxLines == 1
\* largest number of instances doCmdLaunch or doCmdList prints (PrintSpec)
MaxPrinted == 2
\* largest number of instance ids given to terminateInstances
MaxTermIds == 3
\* cap on the number of error-status answers the control plane gives to the
\* delete requests of one run of terminateInstances (the code has no such cap)
MaxErrorAnswers == 3

(***************************************************************************)
(* HTTP responses.  A response is either a network-level failure           *)
(* (requests raises: net = TRUE) or a status code with a body.  A body is  *)
(* text that is not JSON, or a JSON map; of a JSON map the model keeps     *)
(* whether it has a 'state' key (state # "none"; the instance's 'job'      *)
(* travels with it) and one payload field, rev, standing for the rest of   *)
(* the descriptor.                                                         *)
(***************************************************************************)
BadBody == [kind |-> "text", state |-> "none", rev |-> 0]
EmptyContent == [kind |-> "json", state |-> "none", rev |-> 0]
Inst(s, r) == [kind |-> "json", state |-> s, rev |-> r]

NetFailure == [net |-> TRUE, code |-> 0, body |-> BadBody]
Http(c, b) == [net |-> FALSE, code |-> c, body |-> b]

\* resp.json() guarded by try/except: an unparseable body reads as {}
Json(b) == IF b.kind = "json" THEN b ELSE EmptyContent

\* (resp.status_code < 200) or (resp.status_code >= 300)
IsErrorStatus(code) == (code < 200) \/ (code >= 300)

\* time.sleep( 10 ) before a retry
RetrySleep == 10

(***************************************************************************)
(* queryNcsSc( urlTail, authToken, reqParams, maxRetries ).  resps is the  *)
(* sequence of answers the control plane gives to the successive GET       *)
(* requests of this call (at least maxRetries+1 of them).  The result      *)
(* records what the caller gets (an exception, or {content, statusCode})   *)
(* and what the call did: the number of requests issued and the seconds    *)
(* slept.                                                                  *)
(***************************************************************************)
RECURSIVE queryNcsSc_NoDecrement(_, _)
queryNcsSc_NoDecrement(resps, maxRetries) ==
    LET resp == Head(resps) IN
    IF resp.net
    THEN [raised |-> TRUE, content |-> EmptyContent, statusCode |-> 0,
          requests |-> 1, slept |-> 0]
    ELSE IF IsErrorStatus(resp.code) /\ maxRetries > 0 /\ Len(resps) > 1
    THEN LET r == queryNcsSc_NoDecrement(Tail(resps), maxRetries)
         IN  [r EXCEPT !.requests = @ + 1, !.slept = @ + RetrySleep]
    ELSE [raised |-> FALSE, content |-> Json(resp.body),
          statusCode |-> resp.code, requests |-> 1, slept |-> 0]

RECURSIVE queryNcsSc_RetryOnNetFailure(_, _)
queryNcsSc_RetryOnNetFailure(resps, maxRetries) ==
    LET resp == Head(resps) IN
    IF (resp.net \/ IsErrorStatus(resp.code)) /\ maxRetries > 0
    THEN LET r == queryNcsSc_RetryOnNetFailure(Tail(resps), maxRetries - 1)
         IN  [r EXCEPT !.requests = @ + 1, !.slept = @ + RetrySleep]
    ELSE IF resp.net
    THEN [raised |-> TRUE, content |-> EmptyContent, statusCode |-> 0,
          requests |-> 1, slept |-> 0]
    ELSE [raised |-> FALSE, content |-> Json(resp.body),
          statusCode |-> resp.code, requests |-> 1, slept |-> 0]

RECURSIVE queryNcsSc(_, _)
queryNcsSc(resps, maxRetries) ==
    LET resp == Head(resps) IN
    IF resp.net
    THEN \* requests.get raises: nothing catches it here
         [raised |-> TRUE, content |-> EmptyContent, statusCode |-> 0,
          requests |-> 1, slept |-> 0]
    ELSE IF IsErrorStatus(resp.code) /\ maxRetries > 0
    THEN LET r == queryNcsSc(Tail(resps), maxRetries - 1)
         IN  [r EXCEPT !.requests = @ + 1, !.slept = @ + RetrySleep]
    ELSE [raised |-> FALSE, content |-> Json(resp.body),
          statusCode |-> resp.code, requests |-> 1, slept |-> 0]

NoResult == [raised |-> FALSE, content |-> EmptyContent, statusCode |-> 0,
             requests |-> 0, slept |-> 0]

\* maxRetries=1: the default, used by every query of doCmdLaunch
DefaultMaxRetries == 1
VARIABLES
    \* ---- one call of queryNcsSc (QuerySpec)
    qpc,            \* "idle", "call", "returned", "raised"
    qMaxRetries,    \* the maxRetries argument
    qResps,         \* the control plane's answers to the successive requests
    qResult,        \* what the call returned and did
    \* ---- doCmdLaunch after the launch request (Spec)
    pc,             \* where doCmdLaunch is: "idle", "launch", "enter"
                    \* (before the first poll cycle), "while", "for",
                    \* "gotState", "store", "failedTest", "startingTest"
                    \* (at lines 201, 203, 204, 209 for the id just
                    \* queried), "sleep", "report", "finish", "done"
                    \* (returned), "raised" (left by an Exception),
                    \* "interrupted" (left by KeyboardInterrupt)
    iids,           \* the ids of the created instances, in order
    argsJson,       \* args.json
    idx,            \* position of the running for loop in iids
    starting,       \* the flag of the poll cycle
    details,        \* the content the loop got for the id it is
                    \* processing, or NoDetails
    startedSet,
    failedSet,
    startedInstances,   \* id -> descriptor
    pastDeadline,   \* the value of time.time() > deadline, where deadline
                    \* is 600 s after the loop was entered
    exitBy,         \* how the poll loop was left: "none" (still in it),
                    \* "notStarting", "deadline", "interrupt"
    errored,        \* ids whose query in the current poll cycle raised or
                    \* had no 'state' (what the cycle's warnings log)
    queried,        \* the id the poll loop queried in the step just taken, or 0
    out,            \* ids whose line was printed to stdout, in order
    retval,         \* the value doCmdLaunch returned, or -1
    \* ---- terminateInstances (TermSpec)
    tpc,            \* the calling thread: "idle", "call", "submit", "collect",
                    \* "cancel", "shutdown", "done" (returned), "raised"
    instanceIds,    \* the ids to terminate, in order
    workQueue,      \* the executor's queue: positions in instanceIds
    future,         \* position -> "pending", "running", "finished",
                    \* "failed", "cancelled"
    collected,      \* number of results list( parIter ) has taken
    failure,        \* an exception reached the calling thread
    wpc,            \* worker -> "idle", "popped" (has a work item),
                    \* "request" (runs terminateOne), "waiting" (in
                    \* requests.delete), "sleep"
    wTask,          \* worker -> position it is working on, or 0
    deletes,        \* position -> number of delete requests issued for it
    n502,           \* number of 502 answers so far
    nErrorAnswers,  \* number of answers with an error status so far
    netFailures     \* number of delete requests that failed in the network
VARIABLES
    \* ---- launchNcscInstances, called by doCmdLaunch (CmdSpec)
    cpc,            \* "idle", "versions", "filter", "post", "recover",
                    \* "returned", "raised", "handled"
    jsonFilter,     \* the kind of the --filter argument
    merged,         \* the filter was merged into the request body
    posts,          \* number of create (POST) requests issued
    postStatus,     \* the status code of the POST's answer, or 0
    recoveryGets,   \* number of GET requests of the recovery query
    postJob,        \* the 'job' of the POST's body, or "none"
    recoveryJob,    \* the 'job' of the recovery query's parameters, or "none"
    infos           \* what launchNcscInstances returned
VARIABLES
    \* ---- run_multiple_clients of commandInstancesAsync.py (DispatchSpec)
    rpc,            \* "idle", "main", "call", "gather", "classify", "done"
    loadedInstances,    \* the records of the launched-instances file
    instances,      \* the instances given, in order: what each host will do
    timeLimit,      \* "none" (None: unlimited), "finite" (positive) or
                    \* "zero" (0 or negative)
    tstate,         \* position -> "created", "connecting", "creating",
                    \* "stdout", "stderr", "procExit", "closing",
                    \* "exiting", "done": the await run_client is at; being
                    \* cancelled: "cancelProc" (leaves the async with of
                    \* the process), "cancelConn" (leaves the async with of
                    \* the connection), "cancelEnd"; then "cancelled"
    outLeft,        \* position -> stdout lines the host has yet to send
    errLeft,        \* position -> stderr lines the host has yet to send
    result,         \* position -> what the task ended with, or Pending
    log,            \* the results log file
    writing,        \* the writer inside print, between the write of a
                    \* record's text and the write of its newline, or NoTask
    rcNoneWarned,   \* positions with the warning 'returncode[%s] NONE'
    rcLogged,       \* positions whose 'returncode' record was logged
    results,        \* what gather returned
    kIdx,           \* position of the classifying loop in results
    nGood,
    nFailed,
    nTimedOut,
    nOther,
    warnedAt        \* positions the classifying loop logged a warning for
VARIABLES
    \* ---- what doCmdLaunch and doCmdList print about the instances
    \* ---- (PrintSpec): two runs, A and B, side by side
    ppc,            \* "idle", "print", "done", "raised"
    command,        \* "launch" or "list"
    showPasswords,  \* args.showPasswords
    pJson,          \* args.json
    pDetails,       \* run A: position -> the answer to the query for that id
    pDetailsB,      \* run B: the same answers but for the passwords
    pIdx,           \* position of the printing loop in iids
    printed,        \* run A: the lines printed to stdout
    printedB        \* run B: the lines printed to stdout

qvars == <<qpc, qMaxRetries, qResps, qResult>>
lvars == <<pc, iids, argsJson, idx, starting, details, startedSet, failedSet,
           startedInstances, pastDeadline, exitBy, errored, queried, out,
           retval>>

tvars == <<tpc, instanceIds, workQueue, future, collected, failure, wpc,
           wTask, deletes, n502, nErrorAnswers, netFailures>>

cvars == <<cpc, jsonFilter, merged, posts, postStatus, recoveryGets, postJob,
          recoveryJob, infos>>

dvars == <<rpc, loadedInstances, instances, timeLimit, tstate, outLeft,
           errLeft, result, log, writing, rcNoneWarned, rcLogged, results, kIdx,
           nGood, nFailed, nTimedOut, nOther, warnedAt>>

\* the variables of the parts added to the first three
pvars == <<ppc, command, showPasswords, pJson, pDetails, pDetailsB, pIdx,
           printed, printedB>>

ovars == <<cvars, dvars, pvars>>

vars == <<qvars, lvars, tvars, ovars>>

\* status codes and bodies the control plane answers with in QuerySpec
QCodes == {199, 200, 299, 300, 500}
QBodies == {BadBody, Inst("started", 0)}
QResponses == {NetFailure} \cup {Http(c, b) : c \in QCodes, b \in QBodies}

SeqsOfLen(S, n) == [1..n -> S]

Ids == {iids[i] : i \in 1..Len(iids)}
NoInstances == [i \in {} |-> EmptyContent]
\* the loop is not processing an answer
NoDetails == EmptyContent

QueryIdle ==
    /\ qpc = "idle"
    /\ qMaxRetries = 0
    /\ qResps = <<>>
    /\ qResult = NoResult

LaunchIdle ==
    /\ pc = "idle"
    /\ iids = <<>>
    /\ argsJson = FALSE
    /\ idx = 1
    /\ starting = FALSE
    /\ details = NoDetails
    /\ startedSet = {}
    /\ failedSet = {}
    /\ startedInstances = NoInstances
    /\ pastDeadline = FALSE
    /\ exitBy = "none"
    /\ errored = {}
    /\ queried = 0
    /\ out = <<>>
    /\ retval = -1

\* what launchNcscInstances returns: the empty map, a server-error map, or
\* the list of n created instances (each with its 'id')
NoInfos == [kind |-> "none", serverError |-> 0, n |-> 0]
EmptyMap == [kind |-> "map", serverError |-> 0, n |-> 0]
ServerError(code) == [kind |-> "serverError", serverError |-> code, n |-> 0]
InstanceList(n) == [kind |-> "list", serverError |-> 0, n |-> n]

CmdIdle ==
    /\ cpc = "idle"
    /\ jsonFilter = "none"
    /\ merged = FALSE
    /\ posts = 0
    /\ postStatus = 0
    /\ recoveryGets = 0
    /\ postJob = "none"
    /\ recoveryJob = "none"
    /\ infos = NoInfos

\* what a task of run_multiple_clients ends with (an element of the list
\* gather returns): an int, None, a string, a TimeoutError or an exception
\* of another class
IntResult(v) == [type |-> "int", value |-> v]
NoneResult == [type |-> "NoneType", value |-> 0]
TimeoutResult == [type |-> "TimeoutError", value |-> 0]
ExceptionResult == [type |-> "Exception", value |-> 0]
Pending == [type |-> "pending", value |-> 0]

\* the results log: per writer the number of lines made of exactly one of
\* its records, the number of lines made otherwise, and the text written
\* after the last newline (the writers of its pieces).  The writers are the
\* tasks, by position, and Master for the records of '<master>'.
Master == 0
\* no writer is inside print
NoTask == -1
EmptyLog(n) == [lines |-> [h \in 0..n |-> 0], broken |-> 0, tail |-> <<>>]

PrintIdle ==
    /\ ppc = "idle"
    /\ command = "list"
    /\ showPasswords = FALSE
    /\ pJson = FALSE
    /\ pDetails = <<>>
    /\ pDetailsB = <<>>
    /\ pIdx = 1
    /\ printed = <<>>
    /\ printedB = <<>>

DispatchIdle ==
    /\ rpc = "idle"
    /\ loadedInstances = <<>>
    /\ instances = <<>>
    /\ timeLimit = "none"
    /\ tstate = <<>>
    /\ outLeft = <<>>
    /\ errLeft = <<>>
    /\ result = <<>>
    /\ log = EmptyLog(0)
    /\ writing = NoTask
    /\ rcNoneWarned = {}
    /\ rcLogged = {}
    /\ results = <<>>
    /\ kIdx = 1
    /\ nGood = 0
    /\ nFailed = 0
    /\ nTimedOut = 0
    /\ nOther = 0
    /\ warnedAt = {}

\* nWorkers = 2
nWorkers == 2
\* ThreadPoolExecutor( max_workers=nWorkers ): the pool's threads
Workers_OnePerId == 1..MaxTermIds
Workers == 1..nWorkers

TermIdle ==
    /\ tpc = "idle"
    /\ instanceIds = <<>>
    /\ workQueue = <<>>
    /\ future = <<>>
    /\ collected = 0
    /\ failure = FALSE
    /\ wpc = [w \in Workers |-> "idle"]
    /\ wTask = [w \in Workers |-> 0]
    /\ deletes = <<>>
    /\ n502 = 0
    /\ nErrorAnswers = 0
    /\ netFailures = 0

(***************************************************************************)
(* QuerySpec: one call of queryNcsSc on any maxRetries in 0..MaxRetries    *)
(* and any script of answers, one answer longer than the call can use.     *)
(***************************************************************************)
QueryInit ==
    /\ qpc = "call"
    /\ qMaxRetries \in 0..MaxRetries
    /\ qResps \in SeqsOfLen(QResponses, qMaxRetries + 2)
    /\ qResult = NoResult
    /\ LaunchIdle
    /\ TermIdle
    /\ CmdIdle
    /\ DispatchIdle
    /\ PrintIdle

QueryCall ==
    /\ qpc = "call"
    /\ qResult' = queryNcsSc(qResps, qMaxRetries)
    /\ qpc' = IF qResult'.raised THEN "raised" ELSE "returned"
    /\ UNCHANGED <<qMaxRetries, qResps, lvars, tvars, ovars>>

QueryNext == QueryCall

QuerySpec == QueryInit /\ [][QueryNext]_vars

(***************************************************************************)
(* doCmdLaunch, from the point where launchNcscInstances has returned the  *)
(* created instances: the wait-for-start poll loop (lines 176-221) and the *)
(* reporting phase (lines 223-262).                                        *)
(***************************************************************************)
\* what the control plane answers to a state query of the poll loop or of
\* the reporting phase
PollCodes == {200, 500}
PollBodies == {BadBody, Inst("initial", 0), Inst("starting", 0),
               Inst("failed", 0), Inst("started", 0), Inst("started", 1)}
PollResponses == {NetFailure} \cup {Http(c, b) : c \in PollCodes, b \in PollBodies}

\* the answers one call queryNcsSc( 'instances/%s' % iid, authToken, reqParams )
\* can consume: one, and a second one after an error status
PollScripts ==
    {<<r1, r2>> : r1 \in {r \in PollResponses : r.net \/ ~IsErrorStatus(r.code)},
                  r2 \in {NetFailure}}
    \cup {<<r1, r2>> : r1 \in {r \in PollResponses : ~r.net /\ IsErrorStatus(r.code)},
                       r2 \in PollResponses}

\* The clock.  A state query takes as long as the control plane and the
\* network make it take (requests.get has no timeout) and a sleep at least
\* its 5 s, so across either the clock may or may not pass the deadline;
\* once past, it stays past.
TimePasses == \E late \in BOOLEAN : pastDeadline' = (pastDeadline \/ late)

\* what such a call can come back with
PollResults == {queryNcsSc(resps, DefaultMaxRetries) : resps \in PollScripts}

\* 'state' in details
HasState(d) == d.state # "none"

InLoop == pc \in {"enter", "while", "for", "gotState", "store", "failedTest",
                 "startingTest", "sleep"}
AfterLoop == exitBy # "none"

LaunchInit ==
    /\ pc = "enter"
    /\ \E n \in 0..MaxIds : iids = [i \in 1..n |-> i]
    /\ argsJson \in BOOLEAN
    /\ idx = 1
    /\ starting = FALSE
    /\ details = NoDetails
    /\ startedSet = {}
    /\ failedSet = {}
    /\ startedInstances = NoInstances
    /\ pastDeadline = FALSE
    /\ exitBy = "none"
    /\ errored = {}
    /\ queried = 0
    /\ out = <<>>
    /\ retval = -1
    /\ QueryIdle
    /\ TermIdle
    /\ CmdIdle
    /\ DispatchIdle
    /\ PrintIdle

\* while True: starting = False; launcherStates = collections.Counter()
PollCycleStart ==
    /\ pc \in {"enter", "while"}
    /\ pc' = "for"
    /\ starting' = FALSE
    /\ idx' = 1
    /\ errored' = {}
    /\ queried' = 0
    /\ UNCHANGED <<iids, argsJson, details, startedSet, failedSet,
                   startedInstances, pastDeadline, exitBy, out, retval,
                   qvars, tvars, ovars>>

\* if iid in startedSet: continue
PollSkip ==
    /\ pc = "for"
    /\ idx <= Len(iids)
    /\ iids[idx] \in startedSet
    /\ idx' = idx + 1
    /\ queried' = 0
    /\ UNCHANGED <<pc, iids, argsJson, starting, details, startedSet,
                   failedSet, startedInstances, pastDeadline, exitBy,
                   errored, out, retval, qvars, tvars, ovars>>

\* startedSet.add( iid ) when details['state'] == 'started'
StartedSetAfter(iid, d) ==
    IF d.state = "started" THEN startedSet \cup {iid} ELSE startedSet

\* failedSet.add( iid ) when details['state'] == 'failed'
FailedSetAfter(iid, d) ==
    IF d.state = "failed" THEN failedSet \cup {iid} ELSE failedSet

\* startedInstances[ iid ] = details when details['state'] == 'started'
StartedInstancesAfter_NotStored(iid, d) == startedInstances
StartedInstancesAfter(iid, d) ==
    IF d.state = "started"
    THEN [i \in DOMAIN startedInstances \cup {iid} |->
            IF i = iid THEN d ELSE startedInstances[i]]
    ELSE startedInstances

\* starting = True when details['state'] != 'started'
StartingAfter(d) == starting \/ d.state # "started"

\* one state query of the poll loop (lines 190-200): an Exception or a
\* content without 'state' goes on to the next id; otherwise the loop holds
\* the details and goes on to the tests of the state
PollQuery ==
    /\ pc = "for"
    /\ idx <= Len(iids)
    /\ iids[idx] \notin startedSet
    /\ \E r \in PollResults :
         /\ TimePasses
         /\ IF r.raised \/ ~HasState(r.content)
            THEN \* except Exception: continue / 'state' not in details: continue
                 /\ errored' = errored \cup {iids[idx]}
                 /\ idx' = idx + 1
                 /\ UNCHANGED <<pc, details>>
            ELSE /\ details' = r.content
                 /\ pc' = "gotState"
                 /\ UNCHANGED <<errored, idx>>
    /\ queried' = iids[idx]
    /\ UNCHANGED <<iids, argsJson, starting, startedSet, failedSet,
                   startedInstances, exitBy, out, retval, qvars, tvars,
                   ovars>>

\* if details['state'] == 'started': startedSet.add( iid )
PollStartedAdd ==
    /\ pc = "gotState"
    /\ startedSet' = StartedSetAfter(iids[idx], details)
    /\ pc' = IF details.state = "started" THEN "store" ELSE "failedTest"
    /\ queried' = 0
    /\ UNCHANGED <<iids, argsJson, idx, starting, details, failedSet,
                   startedInstances, pastDeadline, exitBy, errored, out,
                   retval, qvars, tvars, ovars>>

\* startedInstances[ iid ] = details
PollStartedStore ==
    /\ pc = "store"
    /\ startedInstances' = StartedInstancesAfter(iids[idx], details)
    /\ pc' = "failedTest"
    /\ UNCHANGED <<iids, argsJson, idx, starting, details, startedSet,
                   failedSet, pastDeadline, exitBy, errored, queried, out,
                   retval, qvars, tvars, ovars>>

\* if details['state'] == 'failed': failedSet.add( iid )
PollFailedAdd ==
    /\ pc = "failedTest"
    /\ failedSet' = FailedSetAfter(iids[idx], details)
    /\ pc' = "startingTest"
    /\ queried' = 0
    /\ UNCHANGED <<iids, argsJson, idx, starting, details, startedSet,
                   startedInstances, pastDeadline, exitBy, errored, out,
                   retval, qvars, tvars, ovars>>

\* if details['state'] != 'started': starting = True, and on to the next id
PollStillStarting ==
    /\ pc = "startingTest"
    /\ starting' = StartingAfter(details)
    /\ idx' = idx + 1
    /\ details' = NoDetails
    /\ pc' = "for"
    /\ UNCHANGED <<iids, argsJson, startedSet, failedSet, startedInstances,
                   pastDeadline, exitBy, errored, queried, out, retval,
                   qvars, tvars, ovars>>

\* KeyboardInterrupt at any point of the try of lines 183-219 but the sleep:
\* not an Exception, so it leaves the for and while loops to the handler of
\* line 220, whatever the loop had done for the id it was at.  Before the
\* first launcherStates = collections.Counter() the name is not bound, and
\* line 224, which logs it, raises UnboundLocalError.
PollInterrupt ==
    /\ pc \in {"enter", "while", "for", "gotState", "store", "failedTest",
               "startingTest"}
    /\ pc' = IF pc = "enter" THEN "raised" ELSE "report"
    /\ exitBy' = "interrupt"
    /\ idx' = 1
    /\ details' = NoDetails
    /\ queried' = 0
    /\ UNCHANGED <<iids, argsJson, starting, startedSet, failedSet,
                   startedInstances, pastDeadline, errored, out, retval,
                   qvars, tvars, ovars>>

\* KeyboardInterrupt before the try of line 183 (lines 166-182): nothing
\* catches it
SetupInterrupt ==
    /\ pc = "enter"
    /\ pc' = "interrupted"
    /\ UNCHANGED <<iids, argsJson, idx, starting, details, startedSet,
                   failedSet, startedInstances, pastDeadline, exitBy,
                   errored, queried, out, retval, qvars, tvars, ovars>>

\* the end of a poll cycle: if not starting: break / if time.time() > deadline: break
PollCycleEnd ==
    /\ pc = "for"
    /\ idx > Len(iids)
    /\ IF ~starting
       THEN /\ pc' = "report"
            /\ exitBy' = "notStarting"
       ELSE IF pastDeadline
       THEN /\ pc' = "report"
            /\ exitBy' = "deadline"
       ELSE /\ pc' = "sleep"
            /\ UNCHANGED exitBy
    /\ idx' = 1
    /\ queried' = 0
    /\ UNCHANGED <<iids, argsJson, starting, details, startedSet, failedSet,
                   startedInstances, pastDeadline, errored, out, retval,
                   qvars, tvars, ovars>>

\* time.sleep( 5 )
PollSleep ==
    /\ pc = "sleep"
    /\ TimePasses
    /\ pc' = "while"
    /\ UNCHANGED <<iids, argsJson, idx, starting, details, startedSet,
                   failedSet, startedInstances, exitBy, errored, queried,
                   out, retval, qvars, tvars, ovars>>

\* KeyboardInterrupt during the sleep
SleepInterrupt ==
    /\ pc = "sleep"
    /\ pc' = "report"
    /\ exitBy' = "interrupt"
    /\ UNCHANGED <<iids, argsJson, idx, starting, details, startedSet,
                   failedSet, startedInstances, pastDeadline, errored,
                   queried, out, retval, qvars, tvars, ovars>>

\* lines 249-258 for one instance: the JSON record takes any details; the CSV
\* line reads details['state'] and details['job'], a KeyError when absent
PrintInstance(iid, d) ==
    IF argsJson \/ HasState(d)
    THEN /\ out' = Append(out, iid)
         /\ idx' = idx + 1
         /\ UNCHANGED <<pc, retval>>
    ELSE /\ pc' = "raised"
         /\ UNCHANGED <<out, idx, retval>>

\* if iid in startedInstances: details = startedInstances[iid]
ReportReuse ==
    /\ pc = "report"
    /\ idx <= Len(iids)
    /\ iids[idx] \in DOMAIN startedInstances
    /\ PrintInstance(iids[idx], startedInstances[iids[idx]])
    /\ UNCHANGED <<iids, argsJson, starting, details, startedSet, failedSet,
                   startedInstances, pastDeadline, exitBy, errored, queried,
                   qvars, tvars, ovars>>

\* else: details = queryNcsSc( ... )['content'];  except Exception: continue
ReportRequery ==
    /\ pc = "report"
    /\ idx <= Len(iids)
    /\ iids[idx] \notin DOMAIN startedInstances
    /\ \E r \in PollResults :
         IF r.raised
         THEN /\ idx' = idx + 1
              /\ UNCHANGED <<pc, out, retval>>
         ELSE PrintInstance(iids[idx], r.content)
    /\ UNCHANGED <<iids, argsJson, starting, details, startedSet, failedSet,
                   startedInstances, pastDeadline, exitBy, errored, queried,
                   qvars, tvars, ovars>>

\* KeyboardInterrupt inside the try of lines 233-240: except
\* KeyboardInterrupt: break
ReportInterrupt ==
    /\ pc = "report"
    /\ idx <= Len(iids)
    /\ pc' = "finish"
    /\ UNCHANGED <<iids, argsJson, idx, starting, details, startedSet,
                   failedSet, startedInstances, pastDeadline, exitBy,
                   errored, queried, out, retval, qvars, tvars, ovars>>

\* the for loop of line 232 is over
ReportEnd ==
    /\ pc = "report"
    /\ idx > Len(iids)
    /\ pc' = "finish"
    /\ UNCHANGED <<iids, argsJson, idx, starting, details, startedSet,
                   failedSet, startedInstances, pastDeadline, exitBy,
                   errored, queried, out, retval, qvars, tvars, ovars>>

\* lines 259-262: print( ']') for json; return 0 # no err
ReportReturn ==
    /\ pc = "finish"
    /\ pc' = "done"
    /\ retval' = 0
    /\ UNCHANGED <<iids, argsJson, idx, starting, details, startedSet,
                   failedSet, startedInstances, pastDeadline, exitBy,
                   errored, queried, out, qvars, tvars, ovars>>

\* KeyboardInterrupt after the poll loop and outside the try of lines
\* 233-240 (lines 224-232, 248-261): nothing catches it
ReportAbort ==
    /\ pc \in {"report", "finish"}
    /\ pc' = "interrupted"
    /\ UNCHANGED <<iids, argsJson, idx, starting, details, startedSet,
                   failedSet, startedInstances, pastDeadline, exitBy,
                   errored, queried, out, retval, qvars, tvars, ovars>>

Next ==
    \/ PollCycleStart
    \/ PollSkip
    \/ PollQuery
    \/ PollStartedAdd
    \/ PollStartedStore
    \/ PollFailedAdd
    \/ PollStillStarting
    \/ PollInterrupt
    \/ SetupInterrupt
    \/ PollCycleEnd
    \/ PollSleep
    \/ SleepInterrupt
    \/ ReportReuse
    \/ ReportRequery
    \/ ReportInterrupt
    \/ ReportEnd
    \/ ReportReturn
    \/ ReportAbort

Spec == LaunchInit /\ [][Next]_vars

\* the time.sleep( 5 ) after which time.time() > deadline: the clock advances
\* by at least 5 s with every sleep, so it passes the 600 s deadline
DeadlinePasses == PollSleep /\ pastDeadline'

\* doCmdLaunch keeps running (its queries return or raise) and the clock
\* advances
FairSpec == Spec /\ WF_vars(Next) /\ SF_vars(DeadlinePasses)

(***************************************************************************)
(* launchNcscInstances, and what doCmdLaunch does with its result before   *)
(* the poll loop (CmdSpec: the whole of doCmdLaunch).  Bodies here are     *)
(* JSON lists of n elements (the app versions, the created instances), the *)
(* map {'my': [n instances]} of the instances query, a JSON map with other *)
(* keys, or text that is not JSON.                                         *)
(***************************************************************************)
JsonList(n) == [kind |-> "json", shape |-> "list", n |-> n]
MyInstances(n) == [kind |-> "json", shape |-> "my", n |-> n]
ErrorMap == [kind |-> "json", shape |-> "map", n |-> 1]

\* the --filter argument: absent (None), the empty string, text that is not
\* JSON, the JSON value {}, a non-object JSON value that is falsy in Python
\* ([], 0, "", false, null) or truthy ([1], 3, "x", true), a non-empty object
\* without a 'job' key, a non-empty object with one
FilterKinds == {"none", "emptyString", "invalid", "emptyObject", "falsy",
                "truthy", "object", "objectWithJob"}
\* if jsonFilter:
FilterGiven(f) == f \notin {"none", "emptyString"}
\* json.loads( jsonFilter ) returns
ParsesAsJson(f) ==
    f \in {"emptyObject", "falsy", "truthy", "object", "objectWithJob"}
\* if filters:
FilterTruthy(f) == f \in {"truthy", "object", "objectWithJob"}
\* isinstance( filters, dict )
FilterIsDict(f) == f \in {"emptyObject", "object", "objectWithJob"}
\* 'job' in filters
FilterHasJob(f) == f = "objectWithJob"

\* reqId = str( uuid.uuid4() ), and the value a filter gives for 'job'
ReqId == "reqId"
FilterJob == "filterJob"
\* reqData = { ..., 'job': reqId, ... }; reqData.update( filters ): a key of
\* the filter replaces the request's own
PostJob(f, isMerged) == IF isMerged /\ FilterHasJob(f) THEN FilterJob ELSE ReqId
\* listReqData = { 'job': reqId }
RecoveryJob == ReqId

\* getAppVersions: versions = [x['value'] for x in respContent ]; n is
\* len( versions ).  Iterating a map yields its keys, and a key is a string.
getAppVersions(r) ==
    IF r.raised THEN [raised |-> TRUE, n |-> 0]
    ELSE IF r.content = EmptyContent THEN [raised |-> FALSE, n |-> 0]
    ELSE IF r.content.shape = "list" THEN [raised |-> FALSE, n |-> r.content.n]
    ELSE [raised |-> TRUE, n |-> 0]

VersionCodes == {200, 500}
VersionBodies == {BadBody, JsonList(0), JsonList(2), ErrorMap}
VersionAnswers ==
    {NetFailure} \cup {Http(c, b) : c \in VersionCodes, b \in VersionBodies}
VersionResults ==
    {getAppVersions(queryNcsSc(resps, DefaultMaxRetries)) :
        resps \in SeqsOfLen(VersionAnswers, DefaultMaxRetries + 1)}

\* what the control plane answers to the create (POST) request
PostCodes == {200, 500}
PostAnswers ==
    {NetFailure} \cup {Http(c, BadBody) : c \in PostCodes}
    \cup {Http(200, JsonList(n)) : n \in 0..MaxLaunched}

\* maxRetries=20 of the recovery query
RecoveryMaxRetries == 20
\* the answers to the recovery query: k times 503, then one last answer
RecoveryErrorCounts == {0, 1, RecoveryMaxRetries, RecoveryMaxRetries + 1}
RecoveryLastAnswers ==
    {NetFailure, Http(200, BadBody), Http(503, BadBody)}
    \cup {Http(200, MyInstances(n)) : n \in 0..MaxLaunched}
RecoveryScripts ==
    {[i \in 1..(RecoveryMaxRetries + 1) |->
        IF i <= k THEN Http(503, BadBody) ELSE last] :
        k \in RecoveryErrorCounts, last \in RecoveryLastAnswers}
RecoveryResults ==
    {queryNcsSc(resps, RecoveryMaxRetries) : resps \in RecoveryScripts}

CmdInit ==
    /\ cpc = "versions"
    /\ jsonFilter \in FilterKinds
    /\ merged = FALSE
    /\ posts = 0
    /\ postStatus = 0
    /\ recoveryGets = 0
    /\ postJob = "none"
    /\ recoveryJob = "none"
    /\ infos = NoInfos
    /\ pc = "launch"
    /\ iids = <<>>
    /\ argsJson \in BOOLEAN
    /\ idx = 1
    /\ starting = FALSE
    /\ details = NoDetails
    /\ startedSet = {}
    /\ failedSet = {}
    /\ startedInstances = NoInstances
    /\ pastDeadline = FALSE
    /\ exitBy = "none"
    /\ errored = {}
    /\ queried = 0
    /\ out = <<>>
    /\ retval = -1
    /\ QueryIdle
    /\ TermIdle
    /\ DispatchIdle
    /\ PrintIdle

\* appVersions = getAppVersions( authToken ); if not appVersions: return {}
GetAppVersions ==
    /\ cpc = "versions"
    /\ \E v \in VersionResults :
         IF v.raised
         THEN cpc' = "raised" /\ UNCHANGED infos
         ELSE IF v.n = 0
         THEN cpc' = "returned" /\ infos' = EmptyMap
         ELSE cpc' = "filter" /\ UNCHANGED infos
    /\ UNCHANGED <<jsonFilter, merged, posts, postStatus, recoveryGets,
                   postJob, recoveryJob,
                   qvars, lvars, tvars, dvars, pvars>>

\* if jsonFilter: filters = json.loads( jsonFilter ) ... reqData.update( filters )
LaunchFilter ==
    /\ cpc = "filter"
    /\ IF ~FilterGiven(jsonFilter)
       THEN cpc' = "post" /\ UNCHANGED merged
       ELSE IF ~ParsesAsJson(jsonFilter)
       THEN \* except Exception: ... raise
            cpc' = "raised" /\ UNCHANGED merged
       ELSE IF ~FilterTruthy(jsonFilter)
       THEN cpc' = "post" /\ UNCHANGED merged
       ELSE IF ~FilterIsDict(jsonFilter)
       THEN \* raise TypeError('json in filter is not a dict')
            cpc' = "raised" /\ UNCHANGED merged
       ELSE cpc' = "post" /\ merged' = TRUE
    /\ UNCHANGED <<jsonFilter, posts, postStatus, recoveryGets, infos,
                   postJob, recoveryJob,
                   qvars, lvars, tvars, dvars, pvars>>

\* resp = requests.post( url, headers=headers, data=reqDataStr ) and, for a
\* 2xx answer, return resp.json()
LaunchPost ==
    /\ cpc = "post"
    /\ posts' = posts + 1
    /\ postJob' = PostJob(jsonFilter, merged)
    /\ \E resp \in PostAnswers :
         IF resp.net
         THEN cpc' = "raised" /\ UNCHANGED <<postStatus, infos>>
         ELSE /\ postStatus' = resp.code
              /\ IF IsErrorStatus(resp.code)
                 THEN cpc' = "recover" /\ UNCHANGED infos
                 ELSE IF resp.body.kind = "json"
                 THEN cpc' = "returned" /\ infos' = InstanceList(resp.body.n)
                 ELSE \* resp.json() raises
                      cpc' = "raised" /\ UNCHANGED infos
    /\ UNCHANGED <<jsonFilter, merged, recoveryGets, recoveryJob, qvars, lvars,
                   tvars, dvars, pvars>>

\* time.sleep( 30 ); resp2 = queryNcsSc( 'instances', authToken,
\* maxRetries=20, reqParams=json.dumps(listReqData)) and the three returns
LaunchRecover ==
    /\ cpc = "recover"
    /\ \E resp2 \in RecoveryResults :
         /\ recoveryGets' = resp2.requests
         /\ recoveryJob' = RecoveryJob
         /\ IF resp2.raised
            THEN \* return the original error code
                 cpc' = "returned" /\ infos' = ServerError(postStatus)
            ELSE IF IsErrorStatus(resp2.statusCode)
            THEN \* return the last error code
                 cpc' = "returned" /\ infos' = ServerError(resp2.statusCode)
            ELSE IF resp2.content = EmptyContent
            THEN \* resp2['content']['my'] raises KeyError
                 cpc' = "raised" /\ UNCHANGED infos
            ELSE cpc' = "returned" /\ infos' = InstanceList(resp2.content.n)
    /\ UNCHANGED <<jsonFilter, merged, posts, postStatus, postJob, qvars, lvars,
                   tvars, dvars, pvars>>

\* doCmdLaunch: if 'serverError' in infos: return infos['serverError'] /
\* except Exception: return 13 / otherwise collect the ids and enter the
\* poll loop
DoCmdLaunchResult ==
    /\ cpc \in {"returned", "raised"}
    /\ cpc' = "handled"
    /\ IF cpc = "raised"
       THEN pc' = "done" /\ retval' = 13 /\ UNCHANGED iids
       ELSE IF infos.kind = "serverError"
       THEN pc' = "done" /\ retval' = infos.serverError /\ UNCHANGED iids
       ELSE /\ iids' = [i \in 1..infos.n |-> i]
            /\ pc' = "enter"
            /\ UNCHANGED retval
    /\ UNCHANGED <<argsJson, idx, starting, details, startedSet, failedSet,
                   startedInstances, pastDeadline, exitBy, errored, queried,
                   out, jsonFilter, merged, posts, postStatus, recoveryGets,
                   postJob, recoveryJob,
                   infos, qvars, tvars, dvars, pvars>>

\* KeyboardInterrupt during the launch (lines 144-165): except Exception
\* does not catch it, in launchNcscInstances or in doCmdLaunch.  During
\* requests.post the request may have been sent; during the recovery query
\* any number of its requests may have been.
LaunchInterrupt ==
    /\ cpc \in {"versions", "filter", "post", "recover", "returned", "raised"}
    /\ cpc' = "interrupted"
    /\ pc' = "interrupted"
    /\ IF cpc = "post"
       THEN /\ \E sent \in BOOLEAN :
                 /\ posts' = IF sent THEN posts + 1 ELSE posts
                 /\ postJob' = IF sent THEN PostJob(jsonFilter, merged)
                               ELSE postJob
            /\ UNCHANGED <<recoveryGets, recoveryJob>>
       ELSE IF cpc = "recover"
       THEN /\ \E k \in 0..(RecoveryMaxRetries + 1) :
                 /\ recoveryGets' = k
                 /\ recoveryJob' = IF k > 0 THEN RecoveryJob ELSE recoveryJob
            /\ UNCHANGED <<posts, postJob>>
       ELSE UNCHANGED <<posts, postJob, recoveryGets, recoveryJob>>
    /\ UNCHANGED <<iids, argsJson, idx, starting, details, startedSet,
                   failedSet, startedInstances, pastDeadline, exitBy, errored,
                   queried, out, retval, jsonFilter, merged, postStatus, infos,
                   qvars, tvars, dvars, pvars>>

CmdNext ==
    \/ GetAppVersions
    \/ LaunchFilter
    \/ LaunchPost
    \/ LaunchRecover
    \/ DoCmdLaunchResult
    \/ LaunchInterrupt
    \/ Next

CmdSpec == CmdInit /\ [][CmdNext]_vars

(***************************************************************************)
(* terminateInstances( authToken, instanceIds ): executor.map submits one  *)
(* task per id to a ThreadPoolExecutor of nWorkers threads, list( parIter )*)
(* takes the results in order, and leaving the with block waits for the    *)
(* workers.  Each task is terminateOne, i.e. terminateNcscInstance.        *)
(***************************************************************************)
\* what the control plane answers to a delete request
DeleteCodes == {200, 404, 502}
DeleteAnswers == {NetFailure} \cup {Http(c, BadBody) : c \in DeleteCodes}

\* an element of instanceIds is a str, or (an 'id' of the control plane's
\* JSON that is a number) is not
IdTypes == {"str", "int"}

TermInit ==
    /\ tpc = "call"
    /\ \E n \in 0..MaxTermIds : instanceIds \in SeqsOfLen(IdTypes, n)
    /\ workQueue = <<>>
    /\ future = <<>>
    /\ collected = 0
    /\ failure = FALSE
    /\ wpc = [w \in Workers |-> "idle"]
    /\ wTask = [w \in Workers |-> 0]
    /\ deletes = [i \in 1..Len(instanceIds) |-> 0]
    /\ n502 = 0
    /\ nErrorAnswers = 0
    /\ netFailures = 0
    /\ QueryIdle
    /\ LaunchIdle
    /\ CmdIdle
    /\ DispatchIdle
    /\ PrintIdle

\* if instanceIds and (len(instanceIds) >0) and (isinstance(instanceIds[0],
\* str )): with futures.ThreadPoolExecutor( max_workers=nWorkers ) ...
GuardPasses(ids) == Len(ids) > 0 /\ ids[1] = "str"

TermCall ==
    /\ tpc = "call"
    /\ tpc' = IF GuardPasses(instanceIds) THEN "submit" ELSE "done"
    /\ UNCHANGED <<instanceIds, workQueue, future, collected, failure, wpc,
                   wTask, deletes, n502, nErrorAnswers, netFailures, qvars,
                   lvars, ovars>>

\* executor.map( terminateOne, instanceIds ) submits one work item per
\* element of instanceIds, in order, while the pool's threads already run;
\* it returns parIter when the last one is submitted
TermSubmit ==
    /\ tpc = "submit"
    /\ workQueue' = Append(workQueue, Len(future) + 1)
    /\ future' = Append(future, "pending")
    /\ tpc' = IF Len(future') = Len(instanceIds) THEN "collect" ELSE "submit"
    /\ UNCHANGED <<instanceIds, collected, failure, wpc, wTask, deletes, n502,
                   nErrorAnswers, netFailures, qvars, lvars, ovars>>

\* _worker: work_item = work_queue.get( block=True )
WorkerTake(w) ==
    /\ wpc[w] = "idle"
    /\ workQueue # <<>>
    /\ workQueue' = Tail(workQueue)
    /\ wTask' = [wTask EXCEPT ![w] = Head(workQueue)]
    /\ wpc' = [wpc EXCEPT ![w] = "popped"]
    /\ UNCHANGED <<tpc, instanceIds, future, collected, failure, deletes, n502,
                   nErrorAnswers, netFailures, qvars, lvars, ovars>>

\* work_item.run(): if not self.future.set_running_or_notify_cancel():
\* return; a cancelled item is dropped, a pending one runs terminateOne
WorkerStart(w) ==
    /\ wpc[w] = "popped"
    /\ IF future[wTask[w]] = "pending"
       THEN /\ future' = [future EXCEPT ![wTask[w]] = "running"]
            /\ wpc' = [wpc EXCEPT ![w] = "request"]
            /\ UNCHANGED wTask
       ELSE /\ wpc' = [wpc EXCEPT ![w] = "idle"]
            /\ wTask' = [wTask EXCEPT ![w] = 0]
            /\ UNCHANGED future
    /\ UNCHANGED <<tpc, instanceIds, workQueue, collected, failure, deletes,
                   n502, nErrorAnswers, netFailures, qvars, lvars, ovars>>

\* if resp.status_code == 502: sleep and call terminateNcscInstance again
RetriesDelete_AnyError(resp) == IsErrorStatus(resp.code)
RetriesDelete(resp) == IsErrorStatus(resp.code) /\ resp.code = 502

\* terminateNcscInstance: resp = requests.delete( url, headers=headers ) is
\* sent; the thread waits for the answer
TerminateRequest(w) ==
    /\ wpc[w] = "request"
    /\ instanceIds[wTask[w]] = "str"
    /\ deletes' = [deletes EXCEPT ![wTask[w]] = @ + 1]
    /\ wpc' = [wpc EXCEPT ![w] = "waiting"]
    /\ UNCHANGED <<tpc, instanceIds, workQueue, future, collected, failure,
                   wTask, n502, nErrorAnswers, netFailures, qvars, lvars,
                   ovars>>

\* requests.delete returns or raises, and what follows from the answer
TerminateAnswer(w) ==
    /\ wpc[w] = "waiting"
    /\ \E resp \in DeleteAnswers :
         IF resp.net
         THEN \* the exception ends the task and is kept in its future
              /\ future' = [future EXCEPT ![wTask[w]] = "failed"]
              /\ wpc' = [wpc EXCEPT ![w] = "idle"]
              /\ wTask' = [wTask EXCEPT ![w] = 0]
              /\ netFailures' = netFailures + 1
              /\ UNCHANGED <<n502, nErrorAnswers>>
         ELSE /\ IsErrorStatus(resp.code) => nErrorAnswers < MaxErrorAnswers
              /\ nErrorAnswers' = IF IsErrorStatus(resp.code)
                                  THEN nErrorAnswers + 1 ELSE nErrorAnswers
              /\ n502' = IF resp.code = 502 THEN n502 + 1 ELSE n502
              /\ UNCHANGED netFailures
              /\ IF RetriesDelete(resp)
                 THEN /\ wpc' = [wpc EXCEPT ![w] = "sleep"]
                      /\ UNCHANGED <<future, wTask>>
                 ELSE \* return resp.status_code
                      /\ future' = [future EXCEPT ![wTask[w]] = "finished"]
                      /\ wpc' = [wpc EXCEPT ![w] = "idle"]
                      /\ wTask' = [wTask EXCEPT ![w] = 0]
    /\ UNCHANGED <<tpc, instanceIds, workQueue, collected, failure, deletes,
                   qvars, lvars, ovars>>

\* url = '.../instances/' + iid raises TypeError when iid is not a str: the
\* task ends with the exception before any request
TerminateTypeError(w) ==
    /\ wpc[w] = "request"
    /\ instanceIds[wTask[w]] # "str"
    /\ future' = [future EXCEPT ![wTask[w]] = "failed"]
    /\ wpc' = [wpc EXCEPT ![w] = "idle"]
    /\ wTask' = [wTask EXCEPT ![w] = 0]
    /\ UNCHANGED <<tpc, instanceIds, workQueue, collected, failure, deletes,
                   n502, nErrorAnswers, netFailures, qvars, lvars, ovars>>

\* time.sleep( 10 ) is over: return terminateNcscInstance( authToken, iid ),
\* which sends the next delete request
TerminateRetry(w) ==
    /\ wpc[w] = "sleep"
    /\ deletes' = [deletes EXCEPT ![wTask[w]] = @ + 1]
    /\ wpc' = [wpc EXCEPT ![w] = "waiting"]
    /\ UNCHANGED <<tpc, instanceIds, workQueue, future, collected, failure,
                   wTask, n502, nErrorAnswers, netFailures, qvars, lvars,
                   ovars>>

\* list( parIter ): the next result in order.  A task's exception is raised
\* here, into the finally clause of the iterator.
CollectResult ==
    /\ tpc = "collect"
    /\ IF collected = Len(instanceIds)
       THEN /\ tpc' = "shutdown"
            /\ UNCHANGED <<collected, failure>>
       ELSE /\ future[collected + 1] \in {"finished", "failed"}
            /\ collected' = collected + 1
            /\ IF future[collected + 1] = "failed"
               THEN failure' = TRUE /\ tpc' = "cancel"
               ELSE UNCHANGED <<tpc, failure>>
    /\ UNCHANGED <<instanceIds, workQueue, future, wpc, wTask, deletes, n502,
                   nErrorAnswers, netFailures, qvars, lvars, ovars>>

\* the futures future.cancel() can still cancel
PendingFutures == {i \in DOMAIN future : future[i] = "pending"}
Highest(S) == CHOOSE i \in S : \A j \in S : j <= i

\* finally: for future in fs: future.cancel(), over the futures not yet
\* collected, the last submitted first, one at a time; cancel() changes a
\* pending future only.  Then the exception leaves the with block.
CancelPending ==
    /\ tpc = "cancel"
    /\ IF PendingFutures # {}
       THEN /\ future' = [future EXCEPT ![Highest(PendingFutures)] = "cancelled"]
            /\ UNCHANGED tpc
       ELSE /\ tpc' = "shutdown"
            /\ UNCHANGED future
    /\ UNCHANGED <<instanceIds, workQueue, collected, failure, wpc, wTask,
                   deletes, n502, nErrorAnswers, netFailures, qvars, lvars,
                   ovars>>

\* the end of the with block: executor.shutdown( wait=True )
ExecutorShutdown ==
    /\ tpc = "shutdown"
    /\ workQueue = <<>>
    /\ \A w \in Workers : wpc[w] = "idle"
    /\ tpc' = IF failure THEN "raised" ELSE "done"
    /\ UNCHANGED <<instanceIds, workQueue, future, collected, failure, wpc,
                   wTask, deletes, n502, nErrorAnswers, netFailures, qvars,
                   lvars, ovars>>

TermNext ==
    \/ TermCall
    \/ TermSubmit
    \/ \E w \in Workers : WorkerTake(w)
    \/ \E w \in Workers : WorkerStart(w)
    \/ \E w \in Workers : TerminateRequest(w)
    \/ \E w \in Workers : TerminateAnswer(w)
    \/ \E w \in Workers : TerminateTypeError(w)
    \/ \E w \in Workers : TerminateRetry(w)
    \/ CollectResult
    \/ CancelPending
    \/ ExecutorShutdown

TermSpec == TermInit /\ [][TermNext]_vars

\* the threads are scheduled and every request is answered or fails
TermFairSpec == TermSpec /\ WF_vars(TermNext)

(***************************************************************************)
(* commandInstancesAsync.py: run_multiple_clients starts one task per      *)
(* instance, each run_client under asyncio.wait_for, gathers what they end *)
(* with (return_exceptions=True) and classifies it.  The tasks run on one  *)
(* event loop: a step of a task is what it does between two awaits.  The   *)
(* hosts are the environment: each instance record says what its host will *)
(* do (fail to connect, never answer, or run the command, send lines and   *)
(* exit) and whether its session lasts longer than the time limit.         *)
(***************************************************************************)
Host(ssh, connect, lines, rc, slow, closes) ==
    [ssh |-> ssh, connect |-> connect, out |-> lines, err |-> lines,
     rc |-> rc, slow |-> slow, closes |-> closes]

\* proc.returncode of a command that ran
ExitCodes == {IntResult(0), IntResult(1), NoneResult}

HostBehaviours ==
    \* no 'ssh' entry in the instance record
    {Host(FALSE, "ok", 0, IntResult(0), FALSE, TRUE)}
    \* the connection is refused, or times out in the network layer
    \cup {Host(TRUE, c, 0, IntResult(0), FALSE, TRUE) :
             c \in {"refused", "timeout"}}
    \* the host never answers the connection attempt
    \cup {Host(TRUE, "hang", 0, IntResult(0), TRUE, TRUE)}
    \* the command runs, sends MaxLines lines on stdout and as many on stderr
    \cup {Host(TRUE, "ok", MaxLines, rc, FALSE, TRUE) : rc \in ExitCodes}
    \* the same, in a session that lasts longer than the time limit when
    \* there is one: the timer fires at some point before the task's end
    \cup {Host(TRUE, "ok", MaxLines, rc, TRUE, TRUE) :
             rc \in {IntResult(0), NoneResult}}
    \* the host sends its lines and then stops answering: the close of the
    \* process and the close of the connection, which the exits of the two
    \* async with blocks await, get no answer, so the session never ends
    \cup {Host(TRUE, "ok", MaxLines, IntResult(0), TRUE, FALSE)}

\* --timeLimit (type=float): absent (None), a positive number of seconds,
\* or a number that is 0 or negative
TimeLimits == {"none", "finite", "zero"}
\* asyncio.wait_for( ..., timeout=timeLimit ) cuts the task short unless
\* timeLimit is None: by a timer when it is positive, at once when it is not
TimerArmed_Never(tl) == FALSE
TimerArmed(tl) == tl # "none"
\* with a timeout of 0 or less wait_for cancels the task before run_client
\* has taken its first step
CancelledAtOnce(tl) == tl = "zero"

Tasks == DOMAIN tstate
Ended(h) == tstate[h] \in {"done", "cancelled"}

\* the tasks a timeout of task h cancels
TimedOutTasks_All(h) == {k \in Tasks : ~Ended(k)}
TimedOutTasks(h) == {h}

\* a task whose cancellation was requested and has not yet ended
Cancelling(h) == tstate[h] \in {"cancelProc", "cancelConn", "cancelEnd"}

\* where CancelledError, raised at the await the task is at, takes
\* run_client: out of async with conn.create_process (its exit awaits the
\* close of the process) when it reads stdout or stderr, then out of async
\* with asyncssh.connect (its exit awaits the close of the connection) from
\* every await inside that block, then out of run_client
CancelState(st) ==
    CASE st \in {"stdout", "stderr"} -> "cancelProc"
      [] st \in {"creating", "procExit", "closing"} -> "cancelConn"
      [] st \in {"created", "connecting", "exiting"} -> "cancelEnd"
      [] OTHER -> st

\* the awaits of run_client that end when the host answers a close
AwaitsClose(st) == st \in {"procExit", "exiting", "cancelProc", "cancelConn"}

\* the event loop runs one callback at a time: the next step of any task
\* starts when the running one has reached an await or its end, and there
\* is none inside logResult
CanRun_Always(w) == TRUE
CanRun(w) == w = NoTask

\* logResult: print( json.dumps( toLog, sort_keys=True ),
\* file=resultsLogFile ) writes the record's text, then the newline, in two
\* calls of the file's write
WriteText(l, h) == [l EXCEPT !.tail = Append(@, h)]
WriteNewline(l) ==
    IF Len(l.tail) = 1
    THEN [l EXCEPT !.lines[l.tail[1]] = @ + 1, !.tail = <<>>]
    ELSE [l EXCEPT !.broken = @ + 1, !.tail = <<>>]

\* the classifying loop of run_multiple_clients: the counter a result adds to
Classify_NoTypeCheck(r) ==
    IF r.type = "TimeoutError" THEN "nTimedOut"
    ELSE IF r.type \in {"NoneType"} \/ (r.type = "int" /\ r.value = 0)
    THEN "nGood"
    ELSE "nFailed"
Classify(r) ==
    IF r.type = "TimeoutError" THEN "nTimedOut"
    ELSE IF r.type = "int" THEN (IF r.value # 0 THEN "nFailed" ELSE "nGood")
    ELSE "nOther"

\* a record of the launched-instances file: its 'state', and what its host
\* will do (whether the record has an 'ssh' entry included)
Loaded(state, b) == [state |-> state, host |-> b]
LoadedRecords ==
    {Loaded("starting", Host(TRUE, "ok", MaxLines, IntResult(0), FALSE, TRUE))}
    \cup {Loaded("started", b) : b \in HostBehaviours}

\* extractSshTargets( inRecs ): the 'ssh' entries of the records that are
\* started and have one, as positions in inRecs
extractSshTargets(inRecs) ==
    {i \in DOMAIN inRecs : inRecs[i].state = "started" /\ inRecs[i].host.ssh}

\* [inst for inst in loadedInstances if inst['state'] == 'started' ]
IsStarted(inst) == inst.state = "started"
HostOf(recs) == [i \in DOMAIN recs |-> recs[i].host]

DispatchInit ==
    /\ rpc = "main"
    /\ \E n \in 0..MaxHosts : loadedInstances \in SeqsOfLen(LoadedRecords, n)
    /\ instances = <<>>
    /\ timeLimit \in TimeLimits
    /\ tstate = <<>>
    /\ outLeft = <<>>
    /\ errLeft = <<>>
    /\ result = <<>>
    /\ log = EmptyLog(0)
    /\ writing = NoTask
    /\ rcNoneWarned = {}
    /\ rcLogged = {}
    /\ results = <<>>
    /\ kIdx = 1
    /\ nGood = 0
    /\ nFailed = 0
    /\ nTimedOut = 0
    /\ nOther = 0
    /\ warnedAt = {}
    /\ QueryIdle
    /\ LaunchIdle
    /\ TermIdle
    /\ CmdIdle
    /\ PrintIdle

\* __main__: startedInstances = [inst for inst in loadedInstances if
\* inst['state'] == 'started' ]; remoteHosts = extractSshTargets(
\* startedInstances ), which nothing reads; resultsLogFile = open( ... );
\* logResult( 'programArgs', vars(args), '<master>' ) up to the write of the
\* record's text
MainStart ==
    /\ rpc = "main"
    /\ CanRun(writing)
    /\ instances' = HostOf(SelectSeq(loadedInstances, IsStarted))
    /\ log' = WriteText(EmptyLog(Len(instances')), Master)
    /\ writing' = Master
    /\ UNCHANGED <<rpc, loadedInstances, timeLimit, tstate, outLeft, errLeft,
                   result, rcNoneWarned, rcLogged, results, kIdx, nGood,
                   nFailed, nTimedOut, nOther, warnedAt, qvars, lvars, tvars,
                   cvars, pvars>>

\* the rest of logResult: print writes the newline, and the writer goes on
\* to its next await: __main__ calls run_multiple_clients( startedInstances,
\* program, timeLimit=timeLimit ); run_client goes back to reading its
\* stream, or, after the 'returncode' record, logs the warning for a
\* returncode of None and leaves the async with of the connection by
\* return proc.returncode, whose exit awaits the connection's close
LogResultNewline ==
    /\ writing # NoTask
    /\ log' = WriteNewline(log)
    /\ writing' = NoTask
    /\ IF writing = Master
       THEN /\ rpc' = "call"
            /\ UNCHANGED <<tstate, rcLogged, rcNoneWarned>>
       ELSE IF tstate[writing] = "closing"
       THEN /\ rcLogged' = rcLogged \cup {writing}
            /\ rcNoneWarned' = IF instances[writing].rc = NoneResult
                               THEN rcNoneWarned \cup {writing}
                               ELSE rcNoneWarned
            /\ tstate' = [tstate EXCEPT ![writing] = "exiting"]
            /\ UNCHANGED rpc
       ELSE UNCHANGED <<rpc, tstate, rcLogged, rcNoneWarned>>
    /\ UNCHANGED <<loadedInstances, instances, timeLimit, outLeft, errLeft,
                   result, results, kIdx, nGood, nFailed, nTimedOut, nOther,
                   warnedAt, qvars, lvars, tvars, cvars, pvars>>

\* tasks = (asyncio.wait_for(run_client(inst, cmd), timeout=timeLimit) for
\* inst in instances ); asyncio.gather(*tasks, return_exceptions=True)
CreateTasks ==
    /\ rpc = "call"
    /\ CanRun(writing)
    /\ rpc' = "gather"
    /\ tstate' = [h \in 1..Len(instances) |-> "created"]
    /\ outLeft' = [h \in 1..Len(instances) |-> instances[h].out]
    /\ errLeft' = [h \in 1..Len(instances) |-> instances[h].err]
    /\ result' = [h \in 1..Len(instances) |-> Pending]
    /\ UNCHANGED <<loadedInstances, instances, timeLimit, log, writing,
                   rcNoneWarned, rcLogged, results, kIdx, nGood, nFailed,
                   nTimedOut, nOther, warnedAt, qvars, lvars, tvars, cvars,
                   pvars>>

\* a task ends with r
EndTask(h, r) ==
    /\ tstate' = [tstate EXCEPT ![h] = "done"]
    /\ result' = [result EXCEPT ![h] = r]

\* run_client up to its first await: sshSpecs = inst['ssh'] raises KeyError
\* without the entry
TaskStart(h) ==
    /\ rpc = "gather"
    /\ CanRun(writing)
    /\ tstate[h] = "created"
    /\ ~CancelledAtOnce(timeLimit)
    /\ IF instances[h].ssh
       THEN tstate' = [tstate EXCEPT ![h] = "connecting"] /\ UNCHANGED result
       ELSE EndTask(h, ExceptionResult)
    /\ UNCHANGED <<rpc, loadedInstances, instances, timeLimit, outLeft,
                   errLeft, log, writing, rcNoneWarned, rcLogged, results,
                   kIdx, nGood, nFailed, nTimedOut, nOther, warnedAt, qvars,
                   lvars, tvars, cvars, pvars>>

\* async with asyncssh.connect( ... ) as conn: the connection is made, or
\* the attempt raises; run_client goes on to conn.create_process(cmd)
TaskConnect(h) ==
    /\ rpc = "gather"
    /\ CanRun(writing)
    /\ tstate[h] = "connecting"
    /\ instances[h].connect # "hang"
    /\ IF instances[h].connect = "ok"
       THEN tstate' = [tstate EXCEPT ![h] = "creating"] /\ UNCHANGED result
       ELSE IF instances[h].connect = "timeout"
       THEN EndTask(h, TimeoutResult)
       ELSE EndTask(h, ExceptionResult)
    /\ UNCHANGED <<rpc, loadedInstances, instances, timeLimit, outLeft,
                   errLeft, log, writing, rcNoneWarned, rcLogged, results,
                   kIdx, nGood, nFailed, nTimedOut, nOther, warnedAt, qvars,
                   lvars, tvars, cvars, pvars>>

\* async with conn.create_process(cmd) as proc: the process is started;
\* run_client goes on to read proc.stdout
TaskCreateProcess(h) ==
    /\ rpc = "gather"
    /\ CanRun(writing)
    /\ tstate[h] = "creating"
    /\ tstate' = [tstate EXCEPT ![h] = "stdout"]
    /\ UNCHANGED <<rpc, loadedInstances, instances, timeLimit, outLeft,
                   errLeft, result, log, writing, rcNoneWarned, rcLogged,
                   results, kIdx, nGood, nFailed, nTimedOut, nOther,
                   warnedAt, qvars, lvars, tvars, cvars, pvars>>

\* async for line in proc.stdout: logResult( 'stdout', line.strip(), iid ),
\* up to the write of the record's text; at the end of the stream run_client
\* goes on to proc.stderr
TaskStdout(h) ==
    /\ rpc = "gather"
    /\ CanRun(writing)
    /\ tstate[h] = "stdout"
    /\ IF outLeft[h] > 0
       THEN /\ log' = WriteText(log, h)
            /\ writing' = h
            /\ outLeft' = [outLeft EXCEPT ![h] = @ - 1]
            /\ UNCHANGED tstate
       ELSE /\ tstate' = [tstate EXCEPT ![h] = "stderr"]
            /\ UNCHANGED <<log, writing, outLeft>>
    /\ UNCHANGED <<rpc, loadedInstances, instances, timeLimit, errLeft,
                   result, rcNoneWarned, rcLogged, results, kIdx, nGood,
                   nFailed, nTimedOut, nOther, warnedAt, qvars, lvars, tvars,
                   cvars, pvars>>

\* async for line in proc.stderr: logResult( 'stderr', line.strip(), iid ),
\* up to the write of the record's text; the end of the stream leaves the
\* async with of the process, whose exit awaits the close of the process
TaskStderr(h) ==
    /\ rpc = "gather"
    /\ CanRun(writing)
    /\ tstate[h] = "stderr"
    /\ IF errLeft[h] > 0
       THEN /\ log' = WriteText(log, h)
            /\ writing' = h
            /\ errLeft' = [errLeft EXCEPT ![h] = @ - 1]
            /\ UNCHANGED tstate
       ELSE /\ tstate' = [tstate EXCEPT ![h] = "procExit"]
            /\ UNCHANGED <<log, writing, errLeft>>
    /\ UNCHANGED <<rpc, loadedInstances, instances, timeLimit, outLeft,
                   result, rcNoneWarned, rcLogged, results, kIdx, nGood,
                   nFailed, nTimedOut, nOther, warnedAt, qvars, lvars, tvars,
                   cvars, pvars>>

\* the host has answered the close of the process: the async with of the
\* process is left and run_client goes on to await proc.wait_closed()
TaskProcExit(h) ==
    /\ rpc = "gather"
    /\ CanRun(writing)
    /\ tstate[h] = "procExit"
    /\ instances[h].closes
    /\ tstate' = [tstate EXCEPT ![h] = "closing"]
    /\ UNCHANGED <<rpc, loadedInstances, instances, timeLimit, outLeft,
                   errLeft, result, log, writing, rcNoneWarned, rcLogged,
                   results, kIdx, nGood, nFailed, nTimedOut, nOther,
                   warnedAt, qvars, lvars, tvars, cvars, pvars>>

\* await proc.wait_closed() is over: logResult( 'returncode', ... ) up to
\* the write of the record's text
TaskClose(h) ==
    /\ rpc = "gather"
    /\ CanRun(writing)
    /\ tstate[h] = "closing"
    /\ log' = WriteText(log, h)
    /\ writing' = h
    /\ UNCHANGED <<rpc, loadedInstances, instances, timeLimit, tstate,
                   outLeft, errLeft, result, rcNoneWarned, rcLogged, results,
                   kIdx, nGood, nFailed, nTimedOut, nOther, warnedAt, qvars,
                   lvars, tvars, cvars, pvars>>

\* the host has answered the close of the connection: run_client returns
\* proc.returncode.  The task of a session that lasts longer than the time
\* limit does not get here when the timer is set.
TaskExit(h) ==
    /\ rpc = "gather"
    /\ CanRun(writing)
    /\ tstate[h] = "exiting"
    /\ instances[h].closes
    /\ ~(TimerArmed(timeLimit) /\ instances[h].slow)
    /\ EndTask(h, instances[h].rc)
    /\ UNCHANGED <<rpc, loadedInstances, instances, timeLimit, outLeft,
                   errLeft, log, writing, rcNoneWarned, rcLogged, results,
                   kIdx, nGood, nFailed, nTimedOut, nOther, warnedAt, qvars,
                   lvars, tvars, cvars, pvars>>

\* wait_for cancels run_client: when the timer fires, for a session that
\* lasts longer than a positive time limit (the timer is behind the first
\* step of run_client in the event loop), or in its own first step when the
\* time limit is 0 or less.  fut.cancel() requests the cancellation; the
\* task has not ended yet.
TaskTimeout(h) ==
    /\ rpc = "gather"
    /\ CanRun(writing)
    /\ TimerArmed(timeLimit)
    /\ ~Ended(h)
    /\ ~Cancelling(h)
    /\ IF CancelledAtOnce(timeLimit)
       THEN tstate[h] = "created"
       ELSE instances[h].slow /\ tstate[h] # "created"
    /\ tstate' = [k \in Tasks |->
                    IF k \in TimedOutTasks(h) THEN CancelState(tstate[k])
                    ELSE tstate[k]]
    /\ UNCHANGED <<rpc, loadedInstances, instances, timeLimit, outLeft,
                   errLeft, result, log, writing, rcNoneWarned, rcLogged,
                   results, kIdx, nGood, nFailed, nTimedOut, nOther,
                   warnedAt, qvars, lvars, tvars, cvars, pvars>>

\* the next step of a task being cancelled: the host has answered the close
\* that the exit of an async with awaited, or CancelledError has left
\* run_client; wait_for then raises TimeoutError, which is what the task
\* ends with
TaskCancel(h) ==
    /\ rpc = "gather"
    /\ CanRun(writing)
    /\ Cancelling(h)
    /\ AwaitsClose(tstate[h]) => instances[h].closes
    /\ IF tstate[h] = "cancelProc"
       THEN tstate' = [tstate EXCEPT ![h] = "cancelConn"] /\ UNCHANGED result
       ELSE IF tstate[h] = "cancelConn"
       THEN tstate' = [tstate EXCEPT ![h] = "cancelEnd"] /\ UNCHANGED result
       ELSE /\ tstate' = [tstate EXCEPT ![h] = "cancelled"]
            /\ result' = [result EXCEPT ![h] = TimeoutResult]
    /\ UNCHANGED <<rpc, loadedInstances, instances, timeLimit, outLeft,
                   errLeft, log, writing, rcNoneWarned, rcLogged, results,
                   kIdx, nGood, nFailed, nTimedOut, nOther, warnedAt, qvars,
                   lvars, tvars, cvars, pvars>>

\* results = await asyncio.gather( ... ) returns once every task has ended
GatherDone ==
    /\ rpc = "gather"
    /\ CanRun(writing)
    /\ \A h \in Tasks : Ended(h)
    /\ results' = result
    /\ rpc' = "classify"
    /\ UNCHANGED <<loadedInstances, instances, timeLimit, tstate, outLeft,
                   errLeft, result, log, writing, rcNoneWarned, rcLogged,
                   kIdx, nGood, nFailed, nTimedOut, nOther, warnedAt, qvars,
                   lvars, tvars, cvars, pvars>>

\* for i, result in enumerate(results, 1): one pass of the loop
ClassifyResult ==
    /\ rpc = "classify"
    /\ kIdx <= Len(results)
    /\ LET bucket == Classify(results[kIdx]) IN
       /\ nGood' = IF bucket = "nGood" THEN nGood + 1 ELSE nGood
       /\ nFailed' = IF bucket = "nFailed" THEN nFailed + 1 ELSE nFailed
       /\ nTimedOut' = IF bucket = "nTimedOut" THEN nTimedOut + 1 ELSE nTimedOut
       /\ nOther' = IF bucket = "nOther" THEN nOther + 1 ELSE nOther
       /\ warnedAt' = IF bucket = "nGood" THEN warnedAt
                      ELSE warnedAt \cup {kIdx}
    /\ kIdx' = kIdx + 1
    /\ UNCHANGED <<rpc, loadedInstances, instances, timeLimit, tstate,
                   outLeft, errLeft, result, log, writing, rcNoneWarned,
                   rcLogged, results, qvars, lvars, tvars, cvars, pvars>>

\* logger.info( '%d good, %d failed, %d timed out, %d other', ... )
LogSummary ==
    /\ rpc = "classify"
    /\ kIdx > Len(results)
    /\ rpc' = "done"
    /\ UNCHANGED <<loadedInstances, instances, timeLimit, tstate, outLeft,
                   errLeft, result, log, writing, rcNoneWarned, rcLogged,
                   results, kIdx, nGood, nFailed, nTimedOut, nOther,
                   warnedAt, qvars, lvars, tvars, cvars, pvars>>

DispatchNext ==
    \/ MainStart
    \/ LogResultNewline
    \/ CreateTasks
    \/ \E h \in Tasks : TaskStart(h)
    \/ \E h \in Tasks : TaskConnect(h)
    \/ \E h \in Tasks : TaskCreateProcess(h)
    \/ \E h \in Tasks : TaskStdout(h)
    \/ \E h \in Tasks : TaskStderr(h)
    \/ \E h \in Tasks : TaskProcExit(h)
    \/ \E h \in Tasks : TaskClose(h)
    \/ \E h \in Tasks : TaskExit(h)
    \/ \E h \in Tasks : TaskTimeout(h)
    \/ \E h \in Tasks : TaskCancel(h)
    \/ GatherDone
    \/ ClassifyResult
    \/ LogSummary

DispatchSpec == DispatchInit /\ [][DispatchNext]_vars

\* the event loop runs every task that can go on, and a timer that is set
\* fires
DispatchFairSpec == DispatchSpec /\ WF_vars(DispatchNext)

(***************************************************************************)
(* What doCmdLaunch (its reporting loop) and doCmdList print to stdout     *)
(* about each instance.  Of the answer to the query for an id the model    *)
(* keeps: whether the query raised an Exception, was cut by a              *)
(* KeyboardInterrupt, ended with an error status or with a 2xx status,     *)
(* whether the content has a 'state' (and 'job'), whether it has an 'ssh'  *)
(* entry, and the password in it.  Of a printed line it keeps the          *)
(* format, the id and the text in the place of the password ("absent"      *)
(* when the line has none).  Two runs that get the same answers but for    *)
(* the passwords go side by side.                                          *)
(***************************************************************************)
Passwords == {"secret1", "secret2"}
Answer(status, state, ssh, pw) ==
    [status |-> status, state |-> state, ssh |-> ssh, password |-> pw]
PrintAnswers ==
    {Answer("raised", FALSE, FALSE, ""), Answer("interrupt", FALSE, FALSE, "")}
    \cup {Answer(st, FALSE, FALSE, "") : st \in {"error", "ok"}}
    \cup {Answer(st, TRUE, FALSE, "") : st \in {"error", "ok"}}
    \cup {Answer(st, TRUE, TRUE, pw) : st \in {"error", "ok"}, pw \in Passwords}
\* the answer with its password taken out
Public(a) == [a EXCEPT !.password = ""]

Line(fmt, iid, pw) == [format |-> fmt, iid |-> iid, password |-> pw]

\* doCmdLaunch: outRec = details.copy(); print( json.dumps( outRec ) ), or
\* print( "%s,%s,%s" % (iid, details['state'], details['job']) )
LaunchLine(iid, d, json) ==
    IF json
    THEN Line("json", iid, IF d.ssh THEN d.password ELSE "absent")
    ELSE Line("csv", iid, "absent")

\* doCmdList: the same record with outRec['ssh']['password'] = '*' unless
\* args.showPasswords, or the csv line with pw
ListLine(iid, d, json, show) ==
    IF json
    THEN Line("json", iid,
              IF ~d.ssh THEN "absent" ELSE IF show THEN d.password ELSE "*")
    ELSE Line("csv", iid,
              IF ~show THEN "*" ELSE IF d.ssh THEN d.password ELSE "")

PrintInit ==
    /\ ppc = "print"
    /\ command \in {"launch", "list"}
    /\ showPasswords \in BOOLEAN
    /\ pJson \in BOOLEAN
    /\ \E n \in 0..MaxPrinted :
         /\ pDetails \in SeqsOfLen(PrintAnswers, n)
         /\ pDetailsB \in SeqsOfLen(PrintAnswers, n)
    /\ \A i \in DOMAIN pDetails : Public(pDetails[i]) = Public(pDetailsB[i])
    /\ pIdx = 1
    /\ printed = <<>>
    /\ printedB = <<>>
    /\ QueryIdle
    /\ LaunchIdle
    /\ TermIdle
    /\ CmdIdle
    /\ DispatchIdle

\* doCmdLaunch, for iid in iids: the descriptor kept by the poll loop or a
\* new query; an Exception skips the id, a KeyboardInterrupt leaves the
\* loop; the content is printed whatever the status; the csv line of a
\* content without 'state' raises KeyError
ReportPrint ==
    /\ ppc = "print"
    /\ command = "launch"
    /\ pIdx <= Len(pDetails)
    /\ IF pDetails[pIdx].status = "raised"
       THEN pIdx' = pIdx + 1 /\ UNCHANGED <<ppc, printed, printedB>>
       ELSE IF pDetails[pIdx].status = "interrupt"
       THEN \* break; print( ']') for json; return 0
            ppc' = "done" /\ UNCHANGED <<pIdx, printed, printedB>>
       ELSE IF ~pJson /\ ~pDetails[pIdx].state
       THEN ppc' = "raised" /\ UNCHANGED <<pIdx, printed, printedB>>
       ELSE /\ printed' = Append(printed, LaunchLine(pIdx, pDetails[pIdx], pJson))
            /\ printedB' = Append(printedB, LaunchLine(pIdx, pDetailsB[pIdx], pJson))
            /\ pIdx' = pIdx + 1
            /\ UNCHANGED ppc
    /\ UNCHANGED <<command, showPasswords, pJson, pDetails, pDetailsB, qvars,
                   lvars, tvars, cvars, dvars>>

\* doCmdList, for iid in iids: an Exception or an error status skips the
\* id; a KeyboardInterrupt is not caught; instState = details['state']
\* raises KeyError for a content without 'state'
ListPrint ==
    /\ ppc = "print"
    /\ command = "list"
    /\ pIdx <= Len(pDetails)
    /\ IF pDetails[pIdx].status \in {"raised", "error"}
       THEN pIdx' = pIdx + 1 /\ UNCHANGED <<ppc, printed, printedB>>
       ELSE IF pDetails[pIdx].status = "interrupt" \/ ~pDetails[pIdx].state
       THEN ppc' = "raised" /\ UNCHANGED <<pIdx, printed, printedB>>
       ELSE /\ printed' = Append(printed,
                  ListLine(pIdx, pDetails[pIdx], pJson, showPasswords))
            /\ printedB' = Append(printedB,
                  ListLine(pIdx, pDetailsB[pIdx], pJson, showPasswords))
            /\ pIdx' = pIdx + 1
            /\ UNCHANGED ppc
    /\ UNCHANGED <<command, showPasswords, pJson, pDetails, pDetailsB,
                   qvars, lvars, tvars, cvars, dvars>>

\* the loop is over: print( ']') for json, and the command returns
PrintEnd ==
    /\ ppc = "print"
    /\ pIdx > Len(pDetails)
    /\ ppc' = "done"
    /\ UNCHANGED <<command, showPasswords, pJson, pDetails, pDetailsB, pIdx,
                   printed, printedB, qvars, lvars, tvars, cvars, dvars>>

\* KeyboardInterrupt outside the try of the loop (doCmdLaunch lines 248-260,
\* doCmdList lines 296-344): nothing catches it
PrintInterrupt ==
    /\ ppc = "print"
    /\ ppc' = "raised"
    /\ UNCHANGED <<command, showPasswords, pJson, pDetails, pDetailsB, pIdx,
                   printed, printedB, qvars, lvars, tvars, cvars, dvars>>

PrintNext ==
    \/ ReportPrint
    \/ ListPrint
    \/ PrintEnd
    \/ PrintInterrupt

PrintSpec == PrintInit /\ [][PrintNext]_vars

(***************************************************************************)
(* Claims about one call of queryNcsSc (QuerySpec).                        *)
(***************************************************************************)
\* the answers a call with maxRetries = n can get: the first n+1
Usable == 1..(qMaxRetries + 1)
IsOk(resp) == ~resp.net /\ ~IsErrorStatus(resp.code)
\* the first answer that ends the call: a 2xx answer or a network failure
\* among the first n+1, otherwise answer n+1
StopIndex ==
    IF \E i \in Usable : IsOk(qResps[i]) \/ qResps[i].net
    THEN CHOOSE i \in Usable :
           /\ IsOk(qResps[i]) \/ qResps[i].net
           /\ \A j \in 1..(i - 1) : ~IsOk(qResps[j]) /\ ~qResps[j].net
    ELSE qMaxRetries + 1
NoNetFailure == \A i \in Usable : ~qResps[i].net

\* C7: with maxRetries = n and answers that are all HTTP responses, the call
\* returns the first 2xx answer among the first n+1, after one request and
\* one 10 s sleep per error answer before it; with no 2xx among them it
\* returns the status code of answer n+1 with its parsed body or the empty
\* map; it never issues more than n+1 requests.
C7_RetryUntilOkOrExhausted ==
    (qpc \in {"returned", "raised"} /\ NoNetFailure) =>
        /\ qpc = "returned"
        /\ qResult.requests <= qMaxRetries + 1
        /\ qResult.requests = StopIndex
        /\ qResult.slept = RetrySleep * (StopIndex - 1)
        /\ qResult.statusCode = qResps[StopIndex].code
        /\ qResult.content = Json(qResps[StopIndex].body)
        /\ (IsErrorStatus(qResult.statusCode) => qResult.requests = qMaxRetries + 1)

\* answers 500, 500, 200 with maxRetries = 2: the 200 comes back after 2 retries
C7_Witness ==
    /\ qpc = "returned"
    /\ qMaxRetries = 2
    /\ qResps[1] = Http(500, BadBody)
    /\ qResps[2] = Http(500, BadBody)
    /\ qResps[3] = Http(200, Inst("started", 0))
    /\ qResult.statusCode = 200
    /\ qResult.content = Inst("started", 0)
    /\ qResult.requests = 3
    /\ qResult.slept = 2 * RetrySleep

\* C8: the call raises exactly when a request fails at the network level
\* before any 2xx answer and within the first n+1 answers, and that request
\* is then the last one it issued (no retry, no conversion into a result);
\* every HTTP status, whatever its body, comes back as {content, statusCode}.
C8_RaisesOnlyOnNetFailure ==
    qpc \in {"returned", "raised"} =>
        /\ (qpc = "raised") = qResps[StopIndex].net
        /\ qResult.raised = (qpc = "raised")
        /\ qResult.requests = StopIndex
        /\ (NoNetFailure => qpc = "returned")
        /\ (qpc = "returned" => qResult.statusCode = qResps[StopIndex].code)

\* a network failure at the second attempt, after an error status, with
\* retries left
C8_Witness ==
    /\ qpc = "raised"
    /\ qMaxRetries = 2
    /\ ~qResps[1].net /\ IsErrorStatus(qResps[1].code)
    /\ qResps[2].net
    /\ qResult.requests = 2

(***************************************************************************)
(* Claims about the poll loop of doCmdLaunch (Spec).                       *)
(***************************************************************************)
\* every id has been observed as started or failed
AllTerminal == Ids \subseteq (startedSet \cup failedSet)

\* C1: the loop exits exactly when a cycle ends with every id started or
\* failed, or the deadline has passed: it goes on to sleep only while some
\* id is not terminal, and leaves by "not starting" only when all are.
C1_ExitsExactlyWhenTerminalOrDeadline ==
    /\ (pc = "sleep" => ~AllTerminal /\ ~pastDeadline)
    /\ (exitBy = "notStarting" => AllTerminal)
    /\ (exitBy = "deadline" => pastDeadline)

\* C2: an id whose query raised or had no 'state' in a cycle before the
\* deadline is queried again in a following cycle: the loop is not left,
\* before the deadline, at the end of a cycle in which an id errored.
C2_ErroredIdIsRetried ==
    (exitBy = "notStarting" /\ ~pastDeadline) => errored = {}

\* C3: startedSet and failedSet are disjoint subsets of the input ids, so
\* that each id is in exactly one of started, failed, neither.
C3_AccountingIsAPartition ==
    /\ startedSet \cap failedSet = {}
    /\ startedSet \subseteq Ids
    /\ failedSet \subseteq Ids

\* C4 as claimed: after the loop the key set of startedInstances is the
\* input id set.
C4_KeysEqualInputIds ==
    AfterLoop => DOMAIN startedInstances = Ids

\* the ids in startedSet whose descriptor is not in the map
NotStored == startedSet \ DOMAIN startedInstances

\* C4 as amended: the key set of startedInstances is within startedSet, a
\* subset of the input ids, and each stored descriptor is one observed in
\* state 'started'; the key set is startedSet itself, in the loop and
\* however the loop was left, except for the one id the loop is at between
\* startedSet.add and the store of its descriptor: an interrupt there leaves
\* that id in startedSet without a descriptor.
C4_KeysWithinStartedSet ==
    /\ DOMAIN startedInstances \subseteq startedSet
    /\ startedSet \subseteq Ids
    /\ \A i \in DOMAIN startedInstances : startedInstances[i].state = "started"
    /\ Cardinality(NotStored) <= 1
    /\ pc = "store" => NotStored = {iids[idx]}
    /\ (pc # "store" /\ exitBy # "interrupt") => NotStored = {}

\* the loop was left at the deadline with some ids started and some not
C4_Witness ==
    /\ pc = "report"
    /\ exitBy = "deadline"
    /\ startedSet # {}
    /\ startedSet # Ids
    /\ DOMAIN startedInstances = startedSet

\* C5: started and failed are sticky: a started id stays in startedSet, keeps
\* its descriptor and is not queried again by the loop; a failed id stays in
\* failedSet and is not recorded as started afterwards.
C5_TerminalStatesAreSticky ==
    [][ /\ \A i \in startedSet :
              /\ i \in startedSet'
              /\ i \in DOMAIN startedInstances'
              /\ (i \in DOMAIN startedInstances =>
                     startedInstances'[i] = startedInstances[i])
              /\ queried' # i
        /\ \A i \in failedSet :
              /\ i \in failedSet'
              /\ (i \notin startedSet => i \notin startedSet') ]_vars

\* C6: after a KeyboardInterrupt in the poll loop the exception does not
\* propagate, doCmdLaunch goes through the reporting phase and returns 0
\* (unless another KeyboardInterrupt takes it out of the reporting phase).
C6_InterruptEndsInReturn0 ==
    exitBy = "interrupt" =>
        /\ pc \in {"report", "finish", "done", "interrupted"}
        /\ (pc = "done" => retval = 0)

\* the part of C6 about the loop's own state: the interrupt step changes
\* neither set nor the map, and leads to the reporting phase or to the
\* UnboundLocalError of line 224
InterruptPreservesResults ==
    [][ (exitBy = "none" /\ exitBy' = "interrupt") =>
            /\ pc' \in {"report", "raised"}
            /\ UNCHANGED <<startedSet, failedSet, startedInstances, iids>> ]_vars

(***************************************************************************)
(* Claims about termination (TermSpec, TermFairSpec).                      *)
(***************************************************************************)
Positions == 1..Len(instanceIds)
Finished == tpc \in {"done", "raised"}

\* C9: terminateNcscInstance issues at most 2 delete requests for its id
\* (the first, and one retry after a 502) and then returns a status code.
C9_AtMostOneRetryOn502 ==
    \A i \in Positions : deletes[i] <= 2

\* the list holds instance ids, which are strings
AllIdsAreStr == \A i \in Positions : instanceIds[i] = "str"

\* C10: on a list of ids, when every delete request is answered with a
\* status other than 502, terminateInstances completes, and it has then
\* issued exactly one delete request per id; at no moment has an id had more
\* than one.
C10_ExactlyOneDeletePerId ==
    /\ []((AllIdsAreStr /\ n502 = 0 /\ netFailures = 0) =>
            /\ \A i \in Positions : deletes[i] <= 1
            /\ (Finished => /\ tpc = "done"
                            /\ \A i \in Positions : deletes[i] = 1))
    /\ <>Finished

\* more ids than workers, all answered 200 or 404 (some 404), each deleted once
C10_Witness ==
    /\ tpc = "done"
    /\ Len(instanceIds) > nWorkers
    /\ AllIdsAreStr
    /\ n502 = 0
    /\ nErrorAnswers > 0
    /\ netFailures = 0
    /\ \A i \in Positions : deletes[i] = 1 /\ future[i] = "finished"

\* the tasks whose delete request is in flight: started by a thread and not
\* ended yet, the sleep before a retry included
InFlight == {i \in DOMAIN future : future[i] = "running"}

\* C11: a failure of one id's termination (an error status, or an exception
\* raised by its delete request) prevents no sibling from being terminated:
\* when terminateInstances has ended, a delete request has been issued for
\* every id of the list.
C11_FailureSparesSiblings ==
    Finished => \A i \in Positions : deletes[i] >= 1

\* C12: at every moment at most 2 delete requests are in flight, the
\* sleep-and-retry phase of a 502 included, whatever the number of ids.
C12_AtMostTwoInFlight ==
    /\ Cardinality(InFlight) <= 2
    /\ Cardinality({w \in DOMAIN wpc : wpc[w] # "idle"}) <= 2
    /\ \A i \in InFlight : \E w \in DOMAIN wpc : wTask[w] = i /\ wpc[w] # "idle"

\* three ids: two in flight, one of them sleeping before its retry, the third
\* still queued
C12_Witness ==
    /\ Len(instanceIds) = 3
    /\ Cardinality(InFlight) = 2
    /\ \E w \in Workers : wpc[w] = "sleep"
    /\ \E w \in Workers : wpc[w] = "waiting"
    /\ workQueue # <<>>
    /\ Len(future) = 3 /\ future[3] = "pending"

(***************************************************************************)
(* Claims about the launch (CmdSpec).                                      *)
(***************************************************************************)
\* C13: when the application-versions query returns no versions, the launch
\* fails fast: launchNcscInstances issues no create (POST) request, and
\* doCmdLaunch does not return the success code 0.
C13_NoVersionsIsFatal ==
    infos = EmptyMap => (posts = 0 /\ retval # 0)

\* a filter string that is not valid JSON, or whose JSON value is not an
\* object
NotAnObjectFilter ==
    jsonFilter \in {"emptyString", "invalid", "falsy", "truthy"}

\* C14: for every filter string that is not valid JSON or whose JSON value
\* is not an object (the falsy values [], 0, "", false and null included),
\* launchNcscInstances raises at the filter: it issues no create (POST)
\* request and no recovery query; only a JSON object is merged into the
\* request body.
C14_BadFilterFailsBeforePost ==
    /\ NotAnObjectFilter =>
          /\ posts = 0
          /\ recoveryGets = 0
          /\ cpc \notin {"post", "recover"}
    /\ merged => FilterIsDict(jsonFilter)

\* C15: when the create (POST) request is answered with a non-2xx status S,
\* the recovery query issues at most 21 requests, and launchNcscInstances
\* then returns either a non-empty list of recovered instances or a server
\* error carrying S (when the recovery query raised, ended with a non-2xx
\* status, or returned no instance).
C15_RecoveryKeepsOriginalStatus ==
    (postStatus # 0 /\ IsErrorStatus(postStatus)) =>
        /\ recoveryGets <= RecoveryMaxRetries + 1
        /\ cpc # "raised"
        /\ (cpc \in {"returned", "handled"} =>
              \/ infos = ServerError(postStatus)
              \/ (infos.kind = "list" /\ infos.n > 0))

(***************************************************************************)
(* Claims about the dispatcher (DispatchSpec, DispatchFairSpec).           *)
(***************************************************************************)
\* the results the classifying loop has passed
Classified == 1..(kIdx - 1)
CountOf(S) == Cardinality({i \in Classified : results[i] \in S})

\* the tasks that exceeded the time bound: cut short by wait_for
ExceededBound == {h \in Tasks : tstate[h] = "cancelled"}
\* the tasks that ran to their own end, with what they ended with
EndedWith(S) == {h \in Tasks : tstate[h] = "done" /\ result[h] \in S}

\* C16: at the summary each result is counted exactly once: an exit code 0
\* in nGood, another int exit code in nFailed, a task that exceeded its
\* time bound in nTimedOut, any other exception or value in nOther, and the
\* four counters add up to the number of instances given.
C16_EachResultCountedOnce ==
    rpc = "done" =>
       /\ nGood = Cardinality(EndedWith({IntResult(0)}))
       /\ nFailed = Cardinality(EndedWith({IntResult(1)}))
       /\ nTimedOut = Cardinality(ExceededBound)
       /\ nOther = Cardinality(EndedWith({NoneResult, ExceptionResult,
                                          TimeoutResult}))
       /\ nGood + nFailed + nTimedOut + nOther = Len(instances)

\* what the session of a host ends with when nothing cuts it short
OwnOutcome(b) ==
    IF ~b.ssh \/ b.connect = "refused" THEN ExceptionResult
    ELSE IF b.connect = "timeout" THEN TimeoutResult
    ELSE b.rc
\* the records a host's session puts in the log when it runs to its end
OwnRecords(b) ==
    IF b.ssh /\ b.connect = "ok" THEN b.out + b.err + 1 ELSE 0
Gathered == rpc \in {"classify", "done"}
\* the session of the host lasts longer than the time limit
TakesTooLong(h) == CancelledAtOnce(timeLimit) \/ instances[h].slow

\* C17: with a time limit, a host whose session lasts longer than the limit
\* is cancelled and ends as a timeout, and nothing else is cancelled: every
\* other task runs to its own end, with the outcome, the log records and the
\* counter that its host alone determines, under every interleaving.
C17_TimeoutCancelsOnlyItsTask ==
    TimerArmed(timeLimit) =>
        /\ \A h \in Tasks :
             /\ (Cancelling(h) \/ tstate[h] = "cancelled") => TakesTooLong(h)
             /\ (Ended(h) /\ TakesTooLong(h)) =>
                   tstate[h] = "cancelled" /\ result[h] = TimeoutResult
             /\ (Ended(h) /\ ~TakesTooLong(h)) =>
                   /\ result[h] = OwnOutcome(instances[h])
                   /\ log.lines[h] = OwnRecords(instances[h])
        /\ Gathered =>
             \A h \in Classified :
                results[h] = IF TakesTooLong(h) THEN TimeoutResult
                             ELSE OwnOutcome(instances[h])
        /\ rpc = "done" =>
             /\ nTimedOut = Cardinality({h \in Tasks :
                   TakesTooLong(h) \/ OwnOutcome(instances[h]) = TimeoutResult})
             /\ nGood = Cardinality({h \in Tasks :
                   ~TakesTooLong(h) /\ OwnOutcome(instances[h]) = IntResult(0)})

\* two hosts: the first lasts too long and is cancelled, the second sends
\* its lines, exits with 0 and is counted in nGood
C17_Witness ==
    /\ rpc = "done"
    /\ timeLimit = "finite"
    /\ Len(instances) = 2
    /\ instances[1] = Host(TRUE, "ok", MaxLines, IntResult(0), TRUE, TRUE)
    /\ instances[2] = Host(TRUE, "ok", MaxLines, IntResult(0), FALSE, TRUE)
    /\ tstate = <<"cancelled", "done">>
    /\ results = <<TimeoutResult, IntResult(0)>>
    /\ log.lines[2] = 2 * MaxLines + 1
    /\ <<nGood, nFailed, nTimedOut, nOther>> = <<1, 0, 1, 0>>

\* no instance that gets a task has a host that never answers
NoHostHangs ==
    \A i \in DOMAIN loadedInstances :
       IsStarted(loadedInstances[i]) => loadedInstances[i].host.connect # "hang"

ClosesAnswered ==
    \A i \in DOMAIN loadedInstances :
       IsStarted(loadedInstances[i]) => loadedInstances[i].host.closes

\* a task whose cancellation awaits a close that its host does not answer
Stuck(h) ==
    /\ h \in Tasks
    /\ tstate[h] \in {"cancelProc", "cancelConn"}
    /\ ~instances[h].closes

C19_MissingExitCodeIsNotSuccess ==
    /\ \A h \in Tasks :
          result[h] = NoneResult =>
             /\ h \in rcNoneWarned
             /\ (Gathered /\ h \in Classified) => h \in warnedAt
    /\ \A h \in Tasks :
          (h \in rcLogged /\ instances[h].rc = NoneResult) =>
             /\ h \in rcNoneWarned
             /\ Ended(h) => result[h] \in {NoneResult, TimeoutResult}
             /\ (Gathered /\ h \in Classified) => h \in warnedAt
    /\ Gathered =>
          /\ nGood = CountOf({IntResult(0)})
          /\ nOther >= CountOf({NoneResult})

C19_Witness ==
    /\ rpc = "done"
    /\ Len(instances) = 2
    /\ results = <<NoneResult, IntResult(0)>>
    /\ rcNoneWarned = {1}
    /\ warnedAt = {1}
    /\ <<nGood, nFailed, nTimedOut, nOther>> = <<1, 0, 0, 1>>

\* the calls of logResult a task has made so far
RecordsWritten(h) ==
    (instances[h].out - outLeft[h]) + (instances[h].err - errLeft[h])
    + (IF h \in rcLogged THEN 1 ELSE 0)

\* C20: every logResult call writes one complete record: no other task
\* takes a step between the write of a record's text and the write of its
\* newline, so whenever a task can take a step the log ends with a newline,
\* every line in it is exactly one record and each task's records are all
\* there; no line ever mixes two records.
C20_LogLinesAreWholeRecords ==
    /\ log.broken = 0
    /\ writing # NoTask => log.tail = <<writing>>
    /\ writing = NoTask =>
          /\ log.tail = <<>>
          /\ \A h \in Tasks : log.lines[h] = RecordsWritten(h)
          /\ rpc # "main" => log.lines[Master] = 1

\* two sessions in the middle of their output, each with a line in the log:
\* the first has written the text of its next record and not yet the
\* newline
C20_Witness ==
    /\ Len(instances) = 2
    /\ rpc = "gather"
    /\ \A h \in Tasks : tstate[h] \in {"stdout", "stderr"} /\ log.lines[h] = 1
    /\ writing = 1
    /\ log.tail = <<1>>

(***************************************************************************)
(* Claims about what is printed (PrintSpec).                               *)
(***************************************************************************)
PrintedLines == {printed[i] : i \in DOMAIN printed}

\* C21: without --showPasswords neither launch nor list prints a real
\* password to stdout, in json or in csv: two runs that differ only in the
\* passwords the control plane returns print the same lines.
C21_OutputHidesPasswords ==
    ~showPasswords =>
        /\ printed = printedB
        /\ \A l \in PrintedLines : l.password \notin Passwords

\* the four counters of the summary
Counted == nGood + nFailed + nTimedOut + nOther

\* C22: only the instances of the input file that are started and have an
\* 'ssh' entry get a task: there are as many tasks as such instances, and
\* the counters of the summary add up to their number.
C22_TasksOnlyForSshTargets ==
    /\ rpc \in {"gather", "classify", "done"} =>
          Cardinality(Tasks) = Cardinality(extractSshTargets(loadedInstances))
    /\ rpc = "done" =>
          Counted = Cardinality(extractSshTargets(loadedInstances))

\* the poll loop is left, one way or another
LoopTerminates == <>(exitBy # "none" \/ pc = "interrupted")

\* a poll cycle that finishes after the deadline is the last one
ExitsByDeadlineCycle ==
    [][(pc = "for" /\ idx > Len(iids) /\ pastDeadline) => pc' # "sleep"]_vars

\* C23: the poll loop always terminates, at the latest at the end of the
\* first cycle that finishes after the deadline, and after an exit by the
\* deadline doCmdLaunch reports the instances and returns 0, whatever the
\* state queries return or raise (unless a KeyboardInterrupt takes it out of
\* doCmdLaunch).
C23_DeadlineExitReturns0 ==
    /\ LoopTerminates
    /\ ExitsByDeadlineCycle
    /\ (exitBy = "deadline") ~>
          ((pc = "done" /\ retval = 0) \/ pc = "interrupted")

\* C24: one call of launchNcscInstances issues the create request at most
\* once, whatever the server answers; an error answer leads only to
\* recovery queries, and these carry the job id the POST carried.
C24_OnePostRecoveryBySameJob ==
    /\ posts <= 1
    /\ recoveryGets > 0 => posts = 1 /\ recoveryJob = postJob

=============================================================================
